---- MODULE Spec2Model ----
(***************************************************************************)
(* Model of ackermann_steering_controller::AckermannSteeringController     *)
(* (src/src/ackermann_steering_controller.cpp).                            *)
(*                                                                         *)
(* Three kinds of threads act on the controller:                           *)
(*   - the realtime control loop, which calls starting(), update() and     *)
(*     stopping() one after the other (update_pc is its position inside    *)
(*     update());                                                          *)
(*   - the subscriber callers of cmdVelCallback (pc[c] is the position of  *)
(*     caller c inside the callback);                                      *)
(*   - the publishing threads of the two realtime publishers.              *)
(*                                                                         *)
(* Units: time in seconds, lengths in mm, linear speeds in mm/s, angles in *)
(* mrad, wheel angular speeds in mrad/s.  Floating point values are kept   *)
(* as integers in these units; a sensor reading carries a nan flag.        *)
(***************************************************************************)
EXTENDS Integers, Sequences, FiniteSets, TLC

\* ------------------------------------------------------------------ bounds

\* The clock runs from 0 to MaxTime.
MaxTime == 2

\* update() is called with a period in 1..MaxPeriod.
MaxPeriod == 1

\* The clock of the specification of the publications runs to MaxPublishTime:
\* the second publication after a start at 0 falls due then.
MaxPublishTime == 3

\* sub_command_.getNumPublishers() answers a number in 1..MaxPublishers.
MaxPublishers == 2

\* The threads that may run cmdVelCallback at the same time, and the one of
\* them that runs it when the subscriber's callbacks are serialized.
Callers == {"c1", "c2"}
SingleCaller == {"c1"}

\* The geometry_msgs::Twist messages that arrive (linear.x, angular.z): the
\* one a single producer repeats, and the two of two producers.
Messages == {[lin |-> 1000, ang |-> 200]}
TwoMessages == {[lin |-> 1000, ang |-> 200], [lin |-> 2000, ang |-> -200]}

\* The joint positions the hardware reports (nan: the reading is NaN).
WheelReadings == {[nan |-> TRUE, v |-> 0], [nan |-> FALSE, v |-> 0], [nan |-> FALSE, v |-> 1000]}
SteerReadings == {[nan |-> TRUE, v |-> 0], [nan |-> FALSE, v |-> 0]}

\* The configurations init() is run with.
WheelSeparationParams == {1000}
WheelRadiusParams == {100}
GeometryParams ==
    [wheel_separation_h : WheelSeparationParams,
     wheel_separation_l : WheelSeparationParams,
     wheel_radius : WheelRadiusParams]

\* The configuration of the end-to-end scenario: wheelbase 1.0 m, track width
\* 0.5 m, wheel radius 0.1 m, with multipliers 1 and 2.
AckermannGeometry ==
    {[wheel_separation_h |-> 500, wheel_separation_l |-> 1000, wheel_radius |-> 100]}
GeometryMultipliers == {1, 2}

\* Commands for a steering angle of 0.2 rad, of 1.0 rad and of 1.2 rad, to
\* either side.
SteerMessages ==
    TwoMessages \cup {[lin |-> 1000, ang |-> a] : a \in {1000, -1000, 1200, -1200}}
Multipliers == {1}
CmdVelTimeouts == {1}
PublishPeriods == {1}
MultiplePublisherPolicies == {FALSE}
LimiterConfigs ==
    {[has_velocity_limits |-> FALSE, has_acceleration_limits |-> TRUE,
      has_jerk_limits |-> FALSE, max_acceleration |-> 500]}

\* ------------------------------------------------------------- arithmetic

Abs(x) == IF x < 0 THEN -x ELSE x

Sign(x) == IF x < 0 THEN -1 ELSE IF x > 0 THEN 1 ELSE 0

\* Division rounding toward zero, as a stand-in for the double quotient.
Quot(a, b) == Sign(a) * Sign(b) * (Abs(a) \div Abs(b))

\* sqrt(): the integer square root, found digit by digit in base 36 (the
\* squares of the model stay below 2^31, their roots below 36^3).
Sqrt(n) ==
    LET Below(r, m) == r = 0 \/ r <= m \div r
        Digit(base, step, m) ==
            CHOOSE r \in {b + step * k : b \in {base}, k \in 0..35} :
                Below(r, m) /\ ~Below(r + step, m)
    IN  CHOOSE root \in {Digit(Digit(Digit(0, 1296, m), 36, m), 1, m) : m \in {n}} : TRUE

\* 1000 * sin(theta / 1000) and 1000 * cos(theta / 1000) for the angles in use.
Sin1000(theta) ==
    CASE theta = 0 -> 0
      [] theta = 200 -> 199
      [] theta = -200 -> -199
      [] theta = 1000 -> 841
      [] theta = -1000 -> -841
      [] theta = 1200 -> 932
      [] theta = -1200 -> -932

Cos1000(theta) ==
    CASE theta = 0 -> 1000
      [] theta = 200 -> 980
      [] theta = -200 -> 980
      [] theta = 1000 -> 540
      [] theta = -1000 -> 540
      [] theta = 1200 -> 362
      [] theta = -1200 -> 362

\* 1000 * atan(q / 1000) for 0 <= q <= 1000.
AtanUnit(q) == (q * (785000 + 273 * (1000 - q))) \div 1000000

\* 1000 * atan(num / den).  A zero denominator gives the double quotient
\* +-inf and atan(+-inf) = +-pi/2; 0/0 does not occur for a positive length.
Atan1000(num, den) ==
    IF den = 0 THEN Sign(num) * 1571
    ELSE IF Abs(num) <= Abs(den)
         THEN Sign(num) * Sign(den) * AtanUnit((Abs(num) * 1000) \div Abs(den))
         ELSE Sign(num) * Sign(den) * (1571 - AtanUnit((Abs(den) * 1000) \div Abs(num)))

\* --------------------------------------------------------------- the state

VARIABLES
    now,                    \* ros::Time::now()
    running,                \* isRunning()
    controller_nh,          \* the geometry parameters init() is run with
    \* configuration, set by init()
    open_loop_,
    allow_multiple_cmd_vel_publishers_,
    enable_odom_tf_,
    cmd_vel_timeout_,
    publish_period_,
    limiter_lin_,
    limiter_ang_,
    wheel_separation_h_,
    wheel_separation_l_,
    wheel_radius_,
    wheel_separation_h_multiplier_,
    wheel_radius_multiplier_,
    steer_pos_multiplier_,
    \* hardware
    joint_cmd,              \* the seven setCommand() targets
    \* controller members
    odometry_,
    last_state_publish_time_,
    odom_pub_,
    tf_odom_pub_,
    command_struct_,
    command_,               \* realtime_tools::RealtimeBuffer<Commands>
    last0_cmd_,
    last1_cmd_,
    \* the control loop inside update()
    update_pc,
    update_time,            \* update()'s argument time
    cmd_dt,                 \* update()'s argument period, in seconds
    wheel_pos,              \* right_rear_wheel_joint_.getPosition()
    steer_pos,              \* front_steer_joint_.getPosition()
    curr_cmd,
    read_locked,            \* whether readFromRT of this cycle got the lock
    last_completed_write,   \* what the latest finished writeFromNonRT stored
    accepted_since_start,   \* whether cmdVelCallback took a command since starting()
    publish_log,            \* starting()'s time and the publish attempts since
    \* the callers of cmdVelCallback
    pc,
    command                 \* cmdVelCallback's argument, per caller

config_vars ==
    <<controller_nh, open_loop_, allow_multiple_cmd_vel_publishers_, enable_odom_tf_,
      cmd_vel_timeout_, publish_period_, limiter_lin_, limiter_ang_,
      wheel_separation_h_, wheel_separation_l_, wheel_radius_,
      wheel_separation_h_multiplier_, wheel_radius_multiplier_,
      steer_pos_multiplier_>>

publish_vars == <<last_state_publish_time_, odom_pub_, tf_odom_pub_>>

history_vars == <<last0_cmd_, last1_cmd_>>

cycle_vars ==
    <<update_pc, update_time, cmd_dt, wheel_pos, steer_pos, curr_cmd, read_locked>>

caller_vars == <<pc, command>>

vars ==
    <<now, running, config_vars, joint_cmd, odometry_,
      publish_vars, command_struct_, command_, history_vars, cycle_vars,
      last_completed_write, accepted_since_start, publish_log, caller_vars>>

\* Commands(): lin(0.0), ang(0.0), stamp(0.0).
Commands == [lin |-> 0, ang |-> 0, stamp |-> 0]

\* The locals wheel_pos and steer_pos outside the odometry phase.
NoReading == [nan |-> FALSE, v |-> 0]

\* No message: the callback's argument outside a call.
NoTwist == [lin |-> 0, ang |-> 0]

\* What brake() commands.
BrakeCommand ==
    [right_rear_wheel_joint_ |-> 0, left_rear_wheel_joint_ |-> 0,
     right_front_wheel_joint_ |-> 0, left_front_wheel_joint_ |-> 0,
     front_steer_joint_ |-> 0, left_front_steer_joint_ |-> 0,
     right_front_steer_joint_ |-> 0]

\* The state after the constructor and init(), for a configuration with its
\* open_loop in open_loops, its allow_multiple_cmd_vel_publishers in policies,
\* its geometry parameters in geometries and its multipliers in multipliers.
\* init() reads wheel_separation_l_ from the parameter "wheel_separation_h".
InitOf(open_loops, policies, geometries, multipliers) ==
    /\ now = 0
    /\ running = FALSE
    /\ open_loop_ \in open_loops
    /\ allow_multiple_cmd_vel_publishers_ \in policies
    /\ enable_odom_tf_ = TRUE
    /\ cmd_vel_timeout_ \in CmdVelTimeouts
    /\ publish_period_ \in PublishPeriods
    /\ limiter_lin_ \in LimiterConfigs
    /\ limiter_ang_ = [has_velocity_limits |-> FALSE, has_acceleration_limits |-> FALSE,
                       has_jerk_limits |-> FALSE, max_acceleration |-> 0]
    /\ controller_nh \in geometries
    /\ wheel_separation_h_ = controller_nh.wheel_separation_h
    /\ wheel_separation_l_ = controller_nh.wheel_separation_h
    /\ wheel_radius_ = controller_nh.wheel_radius
    /\ wheel_separation_h_multiplier_ \in multipliers
    /\ wheel_radius_multiplier_ \in multipliers
    /\ steer_pos_multiplier_ \in multipliers
    /\ joint_cmd = BrakeCommand
    /\ odometry_ = [timestamp |-> 0, x |-> 0, heading |-> 0, rear_wheel_old_pos |-> 0]
    /\ last_state_publish_time_ = 0
    /\ odom_pub_ = [turn |-> "REALTIME", stamp |-> 0]
    /\ tf_odom_pub_ = [turn |-> "REALTIME", stamp |-> 0]
    /\ command_struct_ = Commands
    /\ command_ = [realtime_data_ |-> Commands, non_realtime_data_ |-> Commands,
                   new_data_available_ |-> FALSE, mutex_ |-> "free"]
    /\ last0_cmd_ = Commands
    /\ last1_cmd_ = Commands
    /\ update_pc = "idle"
    /\ update_time = 0
    /\ cmd_dt = 0
    /\ wheel_pos = NoReading
    /\ steer_pos = NoReading
    /\ curr_cmd = Commands
    /\ read_locked = FALSE
    /\ last_completed_write = Commands
    /\ accepted_since_start = FALSE
    /\ publish_log = [start |-> 0, attempts |-> 0]
    /\ pc = [c \in Callers |-> "idle"]
    /\ command = [c \in Callers |-> NoTwist]

InitWith(open_loops, policies) ==
    InitOf(open_loops, policies, GeometryParams, Multipliers)

Init == InitWith(BOOLEAN, MultiplePublisherPolicies)

\* ------------------------------------------- update(): the wheel targets

\* right_wheel_steer_angle with the denominator of left_wheel_steer_angle.
RightWheelSteerAngle_PlusDenominator(theta, length, width) ==
    Atan1000(2 * length * Sin1000(theta),
             2 * length * Cos1000(theta) + width * Sin1000(theta))

\* right_wheel_steer_angle of update().
RightWheelSteerAngle(theta, length, width) ==
    Atan1000(2 * length * Sin1000(theta),
             2 * length * Cos1000(theta) - width * Sin1000(theta))

\* left_wheel_steer_angle of update().
LeftWheelSteerAngle(theta, length, width) ==
    Atan1000(2 * length * Sin1000(theta),
             2 * length * Cos1000(theta) + width * Sin1000(theta))

\* r of the motion phase: abs(wheel_separation_l_ * tan((M_PI / 2) - theta)),
\* for theta # 0.  For theta = 0 the double tan(M_PI / 2) is about 1.6e16, so
\* r is finite and so large that (r +- l / 2) / r and sqrt((r +- l / 2)^2 +
\* h^2) / r are the double 1.0: the omegas below are then lin itself.
TurnRadius(theta, length) ==
    Quot(length * Abs(Cos1000(theta)), Abs(Sin1000(theta)))

RightFrontWheelOmega(theta, lin, l, h) ==
    IF Sin1000(theta) = 0 THEN lin
    ELSE LET r == TurnRadius(theta, l)
             r_right_front_wheel == Sqrt((r + l \div 2) * (r + l \div 2) + h * h)
         IN  Quot(r_right_front_wheel * lin, r)

LeftFrontWheelOmega(theta, lin, l, h) ==
    IF Sin1000(theta) = 0 THEN lin
    ELSE LET r == TurnRadius(theta, l)
             r_left_front_wheel == Sqrt((r - l \div 2) * (r - l \div 2) + h * h)
         IN  Quot(r_left_front_wheel * lin, r)

RightRearWheelOmega(theta, lin, l) ==
    IF Sin1000(theta) = 0 THEN lin
    ELSE LET r == TurnRadius(theta, l)
         IN  Quot((r + l \div 2) * lin, r)

LeftRearWheelOmega(theta, lin, l) ==
    IF Sin1000(theta) = 0 THEN lin
    ELSE LET r == TurnRadius(theta, l)
         IN  Quot((r - l \div 2) * lin, r)

\* The three steering setCommand() calls of update().
SteerCommands(j, cmd) ==
    [j EXCEPT
       !.left_front_steer_joint_ =
           RightWheelSteerAngle(cmd.ang, wheel_separation_l_, wheel_separation_h_),
       !.right_front_steer_joint_ =
           LeftWheelSteerAngle(cmd.ang, wheel_separation_l_, wheel_separation_h_),
       !.front_steer_joint_ = cmd.ang]

\* The four wheel setpoints without the else branch of the test of theta: the
\* right wheels get the right omegas whatever the side of the turn.
WheelCommandsFor_NoSwap(j, cmd, l, h, radius) ==
    [j EXCEPT
       !.right_rear_wheel_joint_ =
           Quot(RightRearWheelOmega(cmd.ang, cmd.lin, l) * 1000, radius),
       !.left_rear_wheel_joint_ =
           Quot(LeftRearWheelOmega(cmd.ang, cmd.lin, l) * 1000, radius),
       !.right_front_wheel_joint_ =
           Quot(RightFrontWheelOmega(cmd.ang, cmd.lin, l, h) * 1000, radius),
       !.left_front_wheel_joint_ =
           Quot(LeftFrontWheelOmega(cmd.ang, cmd.lin, l, h) * 1000, radius)]

\* The four wheel setpoints of update() for wheelbase l, track width h and
\* wheel radius radius: omega / radius, the sides swapped unless theta > 0.
WheelCommandsFor(j, cmd, l, h, radius) ==
    LET theta == cmd.ang
        rr == Quot(RightRearWheelOmega(theta, cmd.lin, l) * 1000, radius)
        lr == Quot(LeftRearWheelOmega(theta, cmd.lin, l) * 1000, radius)
        rf == Quot(RightFrontWheelOmega(theta, cmd.lin, l, h) * 1000, radius)
        lf == Quot(LeftFrontWheelOmega(theta, cmd.lin, l, h) * 1000, radius)
    IN  IF theta > 0
        THEN [j EXCEPT !.right_rear_wheel_joint_ = rr, !.left_rear_wheel_joint_ = lr,
                       !.right_front_wheel_joint_ = rf, !.left_front_wheel_joint_ = lf]
        ELSE [j EXCEPT !.right_rear_wheel_joint_ = lr, !.left_rear_wheel_joint_ = rr,
                       !.right_front_wheel_joint_ = lf, !.left_front_wheel_joint_ = rf]

\* The four wheel setCommand() calls of update(): it takes wheel_separation_l_,
\* wheel_separation_h_ and wheel_radius_ as init() read them, without their
\* multipliers.
WheelCommands(j, cmd) ==
    WheelCommandsFor(j, cmd, wheel_separation_l_, wheel_separation_h_, wheel_radius_)

\* brake(): the four wheel setCommand(0.0) calls, then the three steering ones.
BrakeWheels(j) ==
    [j EXCEPT !.right_rear_wheel_joint_ = 0, !.left_rear_wheel_joint_ = 0,
              !.right_front_wheel_joint_ = 0, !.left_front_wheel_joint_ = 0]

BrakeSteers(j) ==
    [j EXCEPT !.front_steer_joint_ = 0, !.left_front_steer_joint_ = 0,
              !.right_front_steer_joint_ = 0]

\* brake() without its loop over the steering joints.
brake_wheels_only(j) == BrakeWheels(j)

brake(j) == BrakeSteers(BrakeWheels(j))

\* --------------------------------------------------- the odometry estimator

\* Odometry::init(time): the pose goes to the origin and the time is recorded.
OdometryInit(o, time) ==
    [o EXCEPT !.timestamp = time, !.x = 0, !.heading = 0]

\* Odometry::updateOpenLoop(linear, angular, time): integrates the commanded
\* velocities over the time since the last update.
OdometryUpdateOpenLoop(o, linear, angular, time) ==
    [o EXCEPT !.x = o.x + linear * (time - o.timestamp),
              !.heading = o.heading + angular * (time - o.timestamp),
              !.timestamp = time]

\* Odometry::update(wheel_pos, steer_pos, time, gain), for readings that are
\* not NaN: the displacement is the change of the wheel position scaled by the
\* wheel radius wr and the gain, the heading change its product with the
\* curvature tan(steer_pos) / ws_h.
OdometryUpdate(o, rear_wheel_pos, front_steer_pos, time, gain, ws_h, wr) ==
    LET d == Quot(Quot((rear_wheel_pos - o.rear_wheel_old_pos) * wr, 1000) * gain, 1000)
    IN  [o EXCEPT !.x = o.x + d,
                  !.heading = o.heading
                      + Quot(d * Sin1000(front_steer_pos) * 1000,
                             Cos1000(front_steer_pos) * ws_h),
                  !.rear_wheel_old_pos = rear_wheel_pos,
                  !.timestamp = time]

\* gain of update(): with r = wheel_separation_l_ * tan((M_PI / 2) - steer_pos),
\* 1000 * abs(r - wheel_separation_l_ / 2) / abs(r); for steer_pos = 0, r is
\* about 1.6e16 * wheel_separation_l_ and the double quotient is 1.0.
Gain(steer, length) ==
    IF Sin1000(steer) = 0 THEN 1000
    ELSE LET r == Quot(length * Cos1000(steer), Sin1000(steer))
         IN  Quot(Abs(r - length \div 2) * 1000, Abs(r))

\* ------------------------------------------------ the realtime command buffer

\* The buffer's mutex_.try_lock().
TryLock(buf) == buf.mutex_ = "free"

\* command_.readFromRT(): with the lock, new data is swapped in; without it
\* the realtime copy stays.  The answer is realtime_data_ of the result.
readFromRT(buf) ==
    IF TryLock(buf) /\ buf.new_data_available_
    THEN [buf EXCEPT !.realtime_data_ = buf.non_realtime_data_,
                     !.non_realtime_data_ = buf.realtime_data_,
                     !.new_data_available_ = FALSE]
    ELSE buf

\* ------------------------------------------------------------- the lifecycle

\* The clock goes on by one unit, up to max.
TickTo(max) ==
    /\ now < max
    /\ now' = now + 1
    /\ UNCHANGED <<running, config_vars, joint_cmd, odometry_,
                   publish_vars, command_struct_, command_, history_vars,
                   cycle_vars, last_completed_write,
                   accepted_since_start, publish_log, caller_vars>>

Tick == TickTo(MaxTime)

\* starting(time), called by the control loop between two cycles.
starting ==
    /\ ~running
    /\ update_pc = "idle"
    /\ joint_cmd' = brake(joint_cmd)
    /\ last_state_publish_time_' = now
    /\ odometry_' = OdometryInit(odometry_, now)
    /\ running' = TRUE
    /\ accepted_since_start' = FALSE
    /\ publish_log' = [start |-> now, attempts |-> 0]
    /\ UNCHANGED <<now, config_vars, odom_pub_, tf_odom_pub_,
                   command_struct_, command_, history_vars, cycle_vars,
                   last_completed_write, caller_vars>>

\* stopping(time), called by the control loop between two cycles.
stopping ==
    /\ running
    /\ update_pc = "idle"
    /\ joint_cmd' = brake(joint_cmd)
    /\ running' = FALSE
    /\ UNCHANGED <<now, config_vars, odometry_, publish_vars,
                   command_struct_, command_, history_vars, cycle_vars,
                   last_completed_write, accepted_since_start, publish_log, caller_vars>>

\* ------------------------------------------------------------------ update()

\* The realtime publishers' trylock(): the message is the control loop's to
\* fill only while it is not handed to the publishing thread.
trylock(pub) == pub.turn = "REALTIME"

\* The control loop reads the hardware and calls update(time, period).
update_call(period, wheel, steer) ==
    /\ running
    /\ update_pc = "idle"
    /\ wheel_pos' = wheel
    /\ steer_pos' = steer
    /\ update_time' = now
    /\ cmd_dt' = period
    /\ update_pc' = "odometry"
    /\ UNCHANGED <<now, running, config_vars, joint_cmd, odometry_, publish_vars,
                   command_struct_, command_, history_vars, curr_cmd, read_locked,
                   last_completed_write, accepted_since_start, publish_log, caller_vars>>

\* isnan(wheel_pos) || isnan(steer_pos), tested on the closed loop path only.
SensorIsNaN == ~open_loop_ /\ (wheel_pos.nan \/ steer_pos.nan)

\* The odometry phase with last_state_publish_time_ advanced only when the
\* odometry message could be locked.
update_odometry_AdvanceOnPublish ==
    /\ update_pc = "odometry"
    /\ IF SensorIsNaN
       THEN /\ update_pc' = "idle"
            /\ update_time' = 0
            /\ cmd_dt' = 0
            /\ UNCHANGED <<odometry_, publish_vars, publish_log>>
       ELSE /\ odometry_' =
                 IF open_loop_
                 THEN OdometryUpdateOpenLoop(odometry_, last0_cmd_.lin, last0_cmd_.ang,
                                             update_time)
                 ELSE OdometryUpdate(odometry_, wheel_pos.v,
                                     steer_pos.v * steer_pos_multiplier_,
                                     update_time,
                                     Gain(steer_pos.v, wheel_separation_l_),
                                     wheel_separation_h_multiplier_ * wheel_separation_h_,
                                     wheel_radius_multiplier_ * wheel_radius_)
            /\ IF last_state_publish_time_ + publish_period_ < update_time
               THEN /\ last_state_publish_time_' =
                         IF trylock(odom_pub_)
                         THEN last_state_publish_time_ + publish_period_
                         ELSE last_state_publish_time_
                    /\ publish_log' = [publish_log EXCEPT !.attempts = @ + 1]
                    /\ odom_pub_' =
                         IF trylock(odom_pub_)
                         THEN [turn |-> "NON_REALTIME", stamp |-> update_time]
                         ELSE odom_pub_
                    /\ tf_odom_pub_' =
                         IF enable_odom_tf_ /\ trylock(tf_odom_pub_)
                         THEN [turn |-> "NON_REALTIME", stamp |-> update_time]
                         ELSE tf_odom_pub_
               ELSE UNCHANGED <<publish_vars, publish_log>>
            /\ update_pc' = "move"
            /\ UNCHANGED <<update_time, cmd_dt>>
    /\ wheel_pos' = NoReading
    /\ steer_pos' = NoReading
    /\ UNCHANGED <<now, running, config_vars, joint_cmd, command_struct_, command_,
                   history_vars, curr_cmd, read_locked, last_completed_write,
                   accepted_since_start, caller_vars>>

\* COMPUTE AND PUBLISH ODOMETRY: the odometry update, with the return on a
\* NaN reading, and the publication of the odometry message and of the tf
\* frame once a publish period has passed.
update_odometry ==
    /\ update_pc = "odometry"
    /\ IF SensorIsNaN
       THEN /\ update_pc' = "idle"
            /\ update_time' = 0
            /\ cmd_dt' = 0
            /\ UNCHANGED <<odometry_, publish_vars, publish_log>>
       ELSE /\ odometry_' =
                 IF open_loop_
                 THEN OdometryUpdateOpenLoop(odometry_, last0_cmd_.lin, last0_cmd_.ang,
                                             update_time)
                 ELSE OdometryUpdate(odometry_, wheel_pos.v,
                                     steer_pos.v * steer_pos_multiplier_,
                                     update_time,
                                     Gain(steer_pos.v, wheel_separation_l_),
                                     wheel_separation_h_multiplier_ * wheel_separation_h_,
                                     wheel_radius_multiplier_ * wheel_radius_)
            /\ IF last_state_publish_time_ + publish_period_ < update_time
               THEN /\ last_state_publish_time_' = last_state_publish_time_ + publish_period_
                    /\ publish_log' = [publish_log EXCEPT !.attempts = @ + 1]
                    /\ odom_pub_' =
                         IF trylock(odom_pub_)
                         THEN [turn |-> "NON_REALTIME", stamp |-> update_time]
                         ELSE odom_pub_
                    /\ tf_odom_pub_' =
                         IF enable_odom_tf_ /\ trylock(tf_odom_pub_)
                         THEN [turn |-> "NON_REALTIME", stamp |-> update_time]
                         ELSE tf_odom_pub_
               ELSE UNCHANGED <<publish_vars, publish_log>>
            /\ update_pc' = "move"
            /\ UNCHANGED <<update_time, cmd_dt>>
    /\ wheel_pos' = NoReading
    /\ steer_pos' = NoReading
    /\ UNCHANGED <<now, running, config_vars, joint_cmd, command_struct_, command_,
                   history_vars, curr_cmd, read_locked, last_completed_write,
                   accepted_since_start, caller_vars>>

\* Brake if cmd_vel has timeout: curr_cmd after the test of dt.
BrakeOnTimeout(cmd, time) ==
    IF time - cmd.stamp > cmd_vel_timeout_
    THEN [cmd EXCEPT !.lin = 0, !.ang = 0]
    ELSE cmd

\* update_move with curr_cmd = *(command_.readFromNonRT()): the read takes the
\* non-realtime copy and swaps nothing in.
update_move_readFromNonRT ==
    /\ update_pc = "move"
    /\ read_locked' = TryLock(command_)
    /\ curr_cmd' = BrakeOnTimeout(command_.non_realtime_data_, update_time)
    /\ last1_cmd_' = last0_cmd_
    /\ last0_cmd_' = curr_cmd'
    /\ update_pc' = "steer"
    /\ UNCHANGED <<now, running, config_vars, joint_cmd, odometry_,
                   publish_vars, command_struct_, command_, update_time, cmd_dt,
                   wheel_pos, steer_pos, last_completed_write,
                   accepted_since_start, publish_log, caller_vars>>

\* update_move with a read that waits for the buffer's lock (lock() in place
\* of try_lock()).
update_move_lock ==
    /\ update_pc = "move"
    /\ TryLock(command_)
    /\ command_' = readFromRT(command_)
    /\ read_locked' = TRUE
    /\ curr_cmd' = BrakeOnTimeout(command_'.realtime_data_, update_time)
    /\ last1_cmd_' = last0_cmd_
    /\ last0_cmd_' = curr_cmd'
    /\ update_pc' = "steer"
    /\ UNCHANGED <<now, running, config_vars, joint_cmd, odometry_,
                   publish_vars, command_struct_, update_time, cmd_dt, wheel_pos,
                   steer_pos, last_completed_write,
                   accepted_since_start, publish_log, caller_vars>>

\* MOVE ROBOT: curr_cmd = *(command_.readFromRT()), the timeout test and the
\* shift of the command history.  The limiter calls are commented out in the
\* source: curr_cmd goes on as it is.
update_move ==
    /\ update_pc = "move"
    /\ command_' = readFromRT(command_)
    /\ read_locked' = TryLock(command_)
    /\ curr_cmd' = BrakeOnTimeout(command_'.realtime_data_, update_time)
    /\ last1_cmd_' = last0_cmd_
    /\ last0_cmd_' = curr_cmd'
    /\ update_pc' = "steer"
    /\ UNCHANGED <<now, running, config_vars, joint_cmd, odometry_,
                   publish_vars, command_struct_, update_time, cmd_dt, wheel_pos,
                   steer_pos, last_completed_write,
                   accepted_since_start, publish_log, caller_vars>>

\* The setCommand() calls of the three steering joints.
update_steer ==
    /\ update_pc = "steer"
    /\ joint_cmd' = SteerCommands(joint_cmd, curr_cmd)
    /\ update_pc' = "wheels"
    /\ UNCHANGED <<now, running, config_vars, odometry_, publish_vars,
                   command_struct_, command_, history_vars, update_time, cmd_dt,
                   wheel_pos, steer_pos, curr_cmd, read_locked, last_completed_write,
                   accepted_since_start, publish_log,
                   caller_vars>>

\* The setCommand() calls of the four wheel joints; update() returns.
update_wheels ==
    /\ update_pc = "wheels"
    /\ joint_cmd' = WheelCommands(joint_cmd, curr_cmd)
    /\ update_pc' = "idle"
    /\ update_time' = 0
    /\ cmd_dt' = 0
    /\ curr_cmd' = Commands
    /\ read_locked' = FALSE
    /\ UNCHANGED <<now, running, config_vars, odometry_, publish_vars,
                   command_struct_, command_, history_vars, wheel_pos, steer_pos,
                   last_completed_write, accepted_since_start, publish_log, caller_vars>>

\* The publishing threads: the message handed over is published and the
\* publisher is the control loop's again.  The message is written anew before
\* every publication, so what is left of it after one is not kept.
odom_publishingLoop ==
    /\ odom_pub_.turn = "NON_REALTIME"
    /\ odom_pub_' = [turn |-> "REALTIME", stamp |-> 0]
    /\ UNCHANGED <<now, running, config_vars, joint_cmd, odometry_,
                   last_state_publish_time_, tf_odom_pub_, command_struct_, command_,
                   history_vars, cycle_vars, last_completed_write,
                   accepted_since_start, publish_log, caller_vars>>

tf_publishingLoop ==
    /\ tf_odom_pub_.turn = "NON_REALTIME"
    /\ tf_odom_pub_' = [turn |-> "REALTIME", stamp |-> 0]
    /\ UNCHANGED <<now, running, config_vars, joint_cmd, odometry_,
                   last_state_publish_time_, odom_pub_, command_struct_, command_,
                   history_vars, cycle_vars, last_completed_write,
                   accepted_since_start, publish_log, caller_vars>>

\* ---------------------------------------------------------- cmdVelCallback()

\* A message of the cmd_vel topic is handed to cmdVelCallback by caller c.
cmdVelCallback_call(c, msg) ==
    /\ pc[c] = "idle"
    /\ pc' = [pc EXCEPT ![c] = "entry"]
    /\ command' = [command EXCEPT ![c] = msg]
    /\ UNCHANGED <<now, running, config_vars, joint_cmd, odometry_,
                   publish_vars, command_struct_, command_, history_vars, cycle_vars,
                   last_completed_write, accepted_since_start, publish_log>>

\* EntryTarget without the isRunning() test: the callback takes a command
\* whether the controller runs or not.
EntryTarget_NoRunningTest(num_publishers) ==
    IF ~allow_multiple_cmd_vel_publishers_ /\ num_publishers > 1
    THEN "brake_wheels"
    ELSE "ang"

\* Where the callback goes from its tests: isRunning(), then the test for
\* several publishers (num_publishers is sub_command_.getNumPublishers()).
\* "reject" is the ROS_ERROR_NAMED of the else branch, "brake_wheels" the
\* brake() after the ROS_ERROR_STREAM_THROTTLE.
EntryTarget(num_publishers) ==
    IF running
    THEN IF ~allow_multiple_cmd_vel_publishers_ /\ num_publishers > 1
         THEN "brake_wheels"
         ELSE "ang"
    ELSE "reject"

cmdVelCallback_entry(c, num_publishers) ==
    /\ pc[c] = "entry"
    /\ pc' = [pc EXCEPT ![c] = EntryTarget(num_publishers)]
    /\ accepted_since_start' =
           (accepted_since_start \/ EntryTarget(num_publishers) = "ang")
    /\ UNCHANGED <<now, running, config_vars, joint_cmd, odometry_,
                   publish_vars, command_struct_, command_, history_vars, cycle_vars,
                   last_completed_write, publish_log, command>>

\* "Can't accept new commands. Controller is not running.": the callback
\* returns and its message is gone.
cmdVelCallback_reject(c) ==
    /\ pc[c] = "reject"
    /\ pc' = [pc EXCEPT ![c] = "idle"]
    /\ command' = [command EXCEPT ![c] = NoTwist]
    /\ UNCHANGED <<now, running, config_vars, joint_cmd, odometry_,
                   publish_vars, command_struct_, command_, history_vars, cycle_vars,
                   last_completed_write, accepted_since_start, publish_log>>

\* brake() of the callback: the wheel joints, then the steering joints.
cmdVelCallback_brake_wheels(c) ==
    /\ pc[c] = "brake_wheels"
    /\ joint_cmd' = BrakeWheels(joint_cmd)
    /\ pc' = [pc EXCEPT ![c] = "brake_steers"]
    /\ UNCHANGED <<now, running, config_vars, odometry_, publish_vars,
                   command_struct_, command_, history_vars, cycle_vars,
                   last_completed_write, accepted_since_start, publish_log, command>>

cmdVelCallback_brake_steers(c) ==
    /\ pc[c] = "brake_steers"
    /\ joint_cmd' = BrakeSteers(joint_cmd)
    /\ pc' = [pc EXCEPT ![c] = "idle"]
    /\ command' = [command EXCEPT ![c] = NoTwist]
    /\ UNCHANGED <<now, running, config_vars, odometry_, publish_vars,
                   command_struct_, command_, history_vars, cycle_vars,
                   last_completed_write, accepted_since_start, publish_log>>

\* command_struct_.ang = command.angular.z
cmdVelCallback_ang(c) ==
    /\ pc[c] = "ang"
    /\ command_struct_' = [command_struct_ EXCEPT !.ang = command[c].ang]
    /\ pc' = [pc EXCEPT ![c] = "lin"]
    /\ UNCHANGED <<now, running, config_vars, joint_cmd, odometry_,
                   publish_vars, command_, history_vars, cycle_vars,
                   last_completed_write, accepted_since_start, publish_log, command>>

\* command_struct_.lin = command.linear.x
cmdVelCallback_lin(c) ==
    /\ pc[c] = "lin"
    /\ command_struct_' = [command_struct_ EXCEPT !.lin = command[c].lin]
    /\ pc' = [pc EXCEPT ![c] = "stamp"]
    /\ UNCHANGED <<now, running, config_vars, joint_cmd, odometry_,
                   publish_vars, command_, history_vars, cycle_vars,
                   last_completed_write, accepted_since_start, publish_log, command>>

\* command_struct_.stamp = ros::Time::now()
cmdVelCallback_stamp(c) ==
    /\ pc[c] = "stamp"
    /\ command_struct_' = [command_struct_ EXCEPT !.stamp = now]
    /\ pc' = [pc EXCEPT ![c] = "lock"]
    /\ UNCHANGED <<now, running, config_vars, joint_cmd, odometry_,
                   publish_vars, command_, history_vars, cycle_vars,
                   last_completed_write, accepted_since_start, publish_log, command>>

\* command_.writeFromNonRT(command_struct_): the caller gets the buffer's lock,
writeFromNonRT_lock(c) ==
    /\ pc[c] = "lock"
    /\ TryLock(command_)
    /\ command_' = [command_ EXCEPT !.mutex_ = c]
    /\ pc' = [pc EXCEPT ![c] = "copy"]
    /\ UNCHANGED <<now, running, config_vars, joint_cmd, odometry_,
                   publish_vars, command_struct_, history_vars, cycle_vars,
                   last_completed_write, accepted_since_start, publish_log, command>>

\* copies command_struct_ into the non-realtime copy, flags the new data and
\* releases the lock; the callback returns.
writeFromNonRT_copy(c) ==
    /\ pc[c] = "copy"
    /\ command_' = [command_ EXCEPT !.non_realtime_data_ = command_struct_,
                                    !.new_data_available_ = TRUE,
                                    !.mutex_ = "free"]
    /\ last_completed_write' = command_struct_
    /\ pc' = [pc EXCEPT ![c] = "idle"]
    /\ command' = [command EXCEPT ![c] = NoTwist]
    /\ UNCHANGED <<now, running, config_vars, joint_cmd, odometry_,
                   publish_vars, command_struct_, history_vars, cycle_vars,
                   accepted_since_start, publish_log>>

\* ------------------------------------------------------- the specification

\* The steps of one cycle of update(), for the sensor readings in W and S.
CycleOf(W, S) ==
    \/ \E period \in 1..MaxPeriod, wheel \in W, steer \in S :
           update_call(period, wheel, steer)
    \/ update_odometry
    \/ update_move
    \/ update_steer
    \/ update_wheels

Cycle == CycleOf(WheelReadings, SteerReadings)

\* The steps of the control loop and of the publishing threads.
ControlLoop ==
    \/ starting
    \/ stopping
    \/ Cycle
    \/ odom_publishingLoop
    \/ tf_publishingLoop

\* The steps of the callers in C of cmdVelCallback, for the messages in M.
Subscriber(C, M) ==
    \/ \E c \in C, msg \in M : cmdVelCallback_call(c, msg)
    \/ \E c \in C, num_publishers \in 1..MaxPublishers :
           cmdVelCallback_entry(c, num_publishers)
    \/ \E c \in C : cmdVelCallback_reject(c)
    \/ \E c \in C : cmdVelCallback_ang(c)
    \/ \E c \in C : cmdVelCallback_lin(c)
    \/ \E c \in C : cmdVelCallback_stamp(c)
    \/ \E c \in C : writeFromNonRT_lock(c)
    \/ \E c \in C : writeFromNonRT_copy(c)

\* The brake() of the callers in C that found several publishers.
SubscriberBrake(C) ==
    \/ \E c \in C : cmdVelCallback_brake_wheels(c)
    \/ \E c \in C : cmdVelCallback_brake_steers(c)

\* The controller with its subscriber's callbacks run one at a time.
Next ==
    \/ Tick
    \/ ControlLoop
    \/ Subscriber(SingleCaller, Messages)
    \/ SubscriberBrake(SingleCaller)

Spec == Init /\ [][Next]_vars

\* The open loop controller that allows several publishers, with
\* cmdVelCallback run by several callers at the same time, within one tick of
\* the clock.
InitConcurrent == InitWith({TRUE}, {TRUE})

NextConcurrent == starting \/ Cycle \/ Subscriber(Callers, TwoMessages)

SpecConcurrent == InitConcurrent /\ [][NextConcurrent]_vars

\* The open loop controller over the time it takes for two publications to
\* fall due, the publishing threads taking their time.
NextPublish ==
    \/ TickTo(MaxPublishTime)
    \/ starting
    \/ CycleOf({[nan |-> FALSE, v |-> 0]}, {[nan |-> FALSE, v |-> 0]})
    \/ odom_publishingLoop
    \/ tf_publishingLoop
    \/ Subscriber(SingleCaller, Messages)

SpecPublish == InitConcurrent /\ [][NextPublish]_vars

\* The closed loop controller configured with a wheelbase that differs from
\* its track width and with multipliers other than 1.
InitGeometry == InitOf({FALSE}, {TRUE}, AckermannGeometry, GeometryMultipliers)

NextGeometry ==
    \/ starting
    \/ CycleOf({[nan |-> FALSE, v |-> 1000]}, {[nan |-> FALSE, v |-> 0]})
    \/ Subscriber(SingleCaller, SteerMessages)

SpecGeometry == InitGeometry /\ [][NextGeometry]_vars

\* ------------------------------------------------------------------ claims

\* A step of the control loop that ends a cycle of update().
CycleEnds == update_pc # "idle" /\ update_pc' = "idle"

\* The step of update() that reads the command buffer.
ReadStep == update_pc = "move" /\ update_pc' = "steer"

WheelsAreZero(j) ==
    /\ j.right_rear_wheel_joint_ = 0
    /\ j.left_rear_wheel_joint_ = 0
    /\ j.right_front_wheel_joint_ = 0
    /\ j.left_front_wheel_joint_ = 0

\* C1: every cycle of update() that ends while the latest command of the
\* channel is older than cmd_vel_timeout_ leaves the four wheel setpoints at 0,
\* whatever the sensor readings and the open loop flag.
C1_TimeoutBrake ==
    [][(CycleEnds /\ update_time - last_completed_write.stamp > cmd_vel_timeout_)
        => WheelsAreZero(joint_cmd')]_vars

\* C2: a closed loop cycle whose wheel or steering reading is NaN skips the
\* odometry update only and goes on to the motion phase.
C2_NaNSkipsOnlyOdometry ==
    [][(update_pc = "odometry" /\ update_pc' # "odometry" /\ SensorIsNaN)
        => (update_pc' = "move" /\ odometry_' = odometry_)]_vars

\* C3, as claimed: every read of update() returns the command of the latest
\* completed write.
C3_ReadReturnsLatestWrite ==
    [][ReadStep => command_'.realtime_data_ = last_completed_write]_vars

\* C3, amended: a read of update() that gets the buffer's lock returns the
\* command of the latest completed write; a read made while a write holds the
\* lock returns the command of the read before it.
C3_LockedReadReturnsLatestWrite ==
    [][ReadStep =>
         IF TryLock(command_)
         THEN command_'.realtime_data_ = last_completed_write
         ELSE command_'.realtime_data_ = command_.realtime_data_]_vars

\* C3's case: the cycle has read a written command for the second time, the
\* command of its earlier read now in the other copy of the buffer.
C3_Witness ==
    /\ update_pc = "steer"
    /\ read_locked
    /\ command_.realtime_data_ = last_completed_write
    /\ command_.realtime_data_.lin # 0
    /\ command_.non_realtime_data_.lin # 0
    /\ command_.non_realtime_data_.stamp < command_.realtime_data_.stamp

\* C4: with cmdVelCallback run by several callers at once, the command a
\* cycle has read has its lin and ang from one incoming message (or is the
\* initial command), never lin of one message and ang of another.
C4_NoTornCommand ==
    update_pc \in {"steer", "wheels"}
        => [lin |-> curr_cmd.lin, ang |-> curr_cmd.ang] \in TwoMessages \cup {NoTwist}

\* A publication is due in the cycle that is at its odometry phase.
PublicationDue ==
    /\ update_pc = "odometry"
    /\ ~SensorIsNaN
    /\ last_state_publish_time_ + publish_period_ < update_time

\* C5: whatever locks the callback and the publishing threads hold, the next
\* step of a cycle of update() can be taken; the read made while a write holds
\* the buffer's lock goes on with the command of the read before it, and the
\* publication due while a publishing thread holds the message is skipped.
C5_CycleNeverBlocks ==
    /\ [](/\ update_pc = "odometry" => ENABLED update_odometry
          /\ update_pc = "move" => ENABLED update_move
          /\ update_pc = "steer" => ENABLED update_steer
          /\ update_pc = "wheels" => ENABLED update_wheels)
    /\ [][/\ (ReadStep /\ ~TryLock(command_))
               => /\ command_'.realtime_data_ = command_.realtime_data_
                  /\ curr_cmd' = BrakeOnTimeout(command_.realtime_data_, update_time)
          /\ (PublicationDue /\ ~trylock(odom_pub_) /\ update_pc' # "odometry")
               => (odom_pub_' = odom_pub_ /\ update_pc' = "move")
          /\ (PublicationDue /\ ~trylock(tf_odom_pub_) /\ update_pc' # "odometry")
               => (tf_odom_pub_' = tf_odom_pub_ /\ update_pc' = "move")]_vars

\* C5's case: a cycle has skipped a publication, the odometry message of the
\* publication before it still with its publishing thread, and has made its
\* read while a write held the buffer's lock.
C5_Witness ==
    /\ update_pc = "steer"
    /\ ~read_locked
    /\ odom_pub_.turn = "NON_REALTIME"
    /\ odom_pub_.stamp < update_time
    /\ last_state_publish_time_ = odom_pub_.stamp

\* The setpoints one complete update() leaves for the command cmd.
UpdateCommand(cmd) == WheelCommands(SteerCommands(BrakeCommand, cmd), cmd)

\* C6: between the cycles of update() and with no brake() of a callback under
\* way, the seven setpoints are those of one complete brake() or of one
\* complete update() for a command of the channel, never zeroed setpoints
\* next to commanded ones.
C6_SetpointsOfOneWriter ==
    (update_pc = "idle" /\ \A c \in Callers : pc[c] \notin {"brake_wheels", "brake_steers"})
        => joint_cmd \in {BrakeCommand} \cup {UpdateCommand(m) : m \in Messages}

\* The step of caller c past the isRunning() test, and its step out of the
\* branch that rejects the command.
Tested(c) == pc[c] = "entry" /\ pc'[c] # "entry"
Rejected(c) == pc[c] = "reject" /\ pc'[c] # "reject"

\* C7: a callback that finds the controller not running goes to the branch
\* that rejects the command and returns from it with its message dropped;
\* neither step changes the channel, command_struct_, the command history or
\* the seven setpoints.
C7_RejectedWhileStopped ==
    [][\A c \in Callers :
         /\ (Tested(c) /\ ~running)
              => /\ pc'[c] = "reject"
                 /\ UNCHANGED <<command_, command_struct_, history_vars, joint_cmd>>
         /\ Rejected(c)
              => /\ pc'[c] = "idle"
                 /\ command'[c] = NoTwist
                 /\ UNCHANGED <<command_, command_struct_, history_vars, joint_cmd>>]_vars

\* C7's case: a callback is rejecting a command of the stopped controller,
\* which has driven a command before.
C7_Witness ==
    /\ ~running
    /\ pc["c1"] = "reject"
    /\ command["c1"].lin # 0
    /\ last0_cmd_.lin # 0

\* C8: starting() zeroes the seven setpoints, initializes the odometry at the
\* time of the start and takes it as the publish reference time; stopping()
\* zeroes the seven setpoints and changes nothing else; while the controller is
\* stopped the zeroed setpoints stay zero.
C8_LifecycleEffects ==
    [][/\ (~running /\ running')
            => /\ joint_cmd' = BrakeCommand
               /\ odometry_' = OdometryInit(odometry_, now)
               /\ last_state_publish_time_' = now
       /\ (running /\ ~running')
            => /\ joint_cmd' = BrakeCommand
               /\ UNCHANGED <<odometry_, history_vars, command_, command_struct_,
                              publish_vars>>
       /\ (~running /\ ~running' /\ joint_cmd = BrakeCommand)
            => joint_cmd' = BrakeCommand]_vars

\* C8's case: the controller is stopped after it has driven and steered, its
\* setpoints zeroed, its odometry and command history kept.
C8_Witness ==
    /\ ~running
    /\ joint_cmd = BrakeCommand
    /\ last0_cmd_.lin # 0
    /\ last0_cmd_.ang # 0
    /\ odometry_.timestamp > 0

\* C9: right after starting() both last0_cmd_ and last1_cmd_ have lin = 0 and
\* ang = 0, whatever cycles ran before a stop.
C9_HistoryResetOnStart ==
    [][(~running /\ running')
        => /\ last0_cmd_'.lin = 0 /\ last0_cmd_'.ang = 0
           /\ last1_cmd_'.lin = 0 /\ last1_cmd_'.ang = 0]_vars

\* C10: with the acceleration limit of the linear limiter enabled, the linear
\* value a cycle applies differs from the one of the cycle before by at most
\* max_acceleration * period.
C10_AccelerationLimited ==
    [][(ReadStep /\ limiter_lin_.has_acceleration_limits)
        => Abs(last0_cmd_'.lin - last0_cmd_.lin)
               <= limiter_lin_.max_acceleration * cmd_dt]_vars

\* A callback has found several publishers where one is allowed and is in its
\* brake(), the wheel setpoints zeroed.
PolicyViolation == \E c \in Callers : pc[c] = "brake_steers"

\* C11: a command that arrives at the running controller with several
\* publishers connected, where one is allowed, is not written to the channel,
\* and the cycle of update() under way when the callback brakes ends with the
\* four wheel setpoints at 0, not with those of an earlier command.
C11_PolicyViolationBrakes ==
    [][/\ \A c \in Callers :
            (pc[c] \in {"brake_wheels", "brake_steers"} /\ pc'[c] # pc[c])
                => UNCHANGED <<command_, command_struct_>>
       /\ (PolicyViolation /\ CycleEnds) => WheelsAreZero(joint_cmd')]_vars

\* The step of update() that sets the three steering setpoints.
SteerStep == update_pc = "steer" /\ update_pc' = "wheels"

\* C12: the steering angles update() sets are those of its two formulas for
\* length = the configured wheelbase and width = the configured track width
\* (each angle at the joint update() sends it to).
C12_SteeringUsesWheelbaseAndTrack ==
    [][SteerStep =>
         /\ joint_cmd'.left_front_steer_joint_ =
                RightWheelSteerAngle(curr_cmd.ang, controller_nh.wheel_separation_l,
                                     controller_nh.wheel_separation_h)
         /\ joint_cmd'.right_front_steer_joint_ =
                LeftWheelSteerAngle(curr_cmd.ang, controller_nh.wheel_separation_l,
                                    controller_nh.wheel_separation_h)]_vars

\* The step of update() that sets the four wheel setpoints.
WheelsStep == update_pc = "wheels" /\ update_pc' = "idle"

\* The wheel parameters init() hands to the odometry: setWheelParams(ws_h, wr).
OdometryWheelSeparation == wheel_separation_h_multiplier_ * wheel_separation_h_
OdometryWheelRadius == wheel_radius_multiplier_ * wheel_radius_

\* C13: the wheel setpoints update() sets are those for the wheel radius and
\* the wheel separation with their multipliers applied, the values init() hands
\* to the odometry.
C13_MultipliersApplied ==
    [][WheelsStep =>
         joint_cmd' = WheelCommandsFor(joint_cmd, curr_cmd, wheel_separation_l_,
                                       OdometryWheelSeparation,
                                       OdometryWheelRadius)]_vars

\* The two front steering setpoints j have the sign of theta, the one of the
\* wheel on the inside of the turn the larger magnitude.
SteersTurnWith(j, theta) ==
    /\ Sign(j.left_front_steer_joint_) = Sign(theta)
    /\ Sign(j.right_front_steer_joint_) = Sign(theta)
    /\ theta > 0 => Abs(j.left_front_steer_joint_) > Abs(j.right_front_steer_joint_)
    /\ theta < 0 => Abs(j.right_front_steer_joint_) > Abs(j.left_front_steer_joint_)

\* Both denominators of the steering formulas are positive for theta.
DenominatorsPositive(theta) ==
    2 * wheel_separation_l_ * Cos1000(theta) > wheel_separation_h_ * Abs(Sin1000(theta))

\* C14, as claimed: for every commanded steering angle other than 0 the two
\* front steering angles update() sets have the sign of theta, and the inner
\* wheel's angle has the larger magnitude.
C14_SteerAnglesSignOfTheta ==
    [][(SteerStep /\ curr_cmd.ang # 0) => SteersTurnWith(joint_cmd', curr_cmd.ang)]_vars

\* C14, amended: the same for the steering angles other than 0 for which both
\* denominators are positive, that is with 2 * length * cos(theta) >
\* width * abs(sin(theta)).
C14_SteerAnglesSignOfThetaInRange ==
    [][(SteerStep /\ curr_cmd.ang # 0 /\ DenominatorsPositive(curr_cmd.ang))
        => SteersTurnWith(joint_cmd', curr_cmd.ang)]_vars

\* C14's case: update() has set the steering angles for a turn to the right,
\* both negative, the right wheel's the larger.
C14_Witness ==
    /\ update_pc = "wheels"
    /\ curr_cmd.ang < 0
    /\ DenominatorsPositive(curr_cmd.ang)
    /\ joint_cmd.right_front_steer_joint_ < joint_cmd.left_front_steer_joint_
    /\ joint_cmd.left_front_steer_joint_ < 0

\* The wheel setpoints j have, on each axle, the larger magnitude on the right.
RightWheelsFaster(j) ==
    /\ Abs(j.right_rear_wheel_joint_) > Abs(j.left_rear_wheel_joint_)
    /\ Abs(j.right_front_wheel_joint_) > Abs(j.left_front_wheel_joint_)

\* The same on the left.
LeftWheelsFaster(j) ==
    /\ Abs(j.left_rear_wheel_joint_) > Abs(j.right_rear_wheel_joint_)
    /\ Abs(j.left_front_wheel_joint_) > Abs(j.right_front_wheel_joint_)

\* The setpoints of the speeds update() computes with r + L/2 (outer) and
\* with r - L/2 (inner), on the rear and on the front axle.
OuterRear == Quot(RightRearWheelOmega(curr_cmd.ang, curr_cmd.lin, wheel_separation_l_) * 1000,
                  wheel_radius_)
InnerRear == Quot(LeftRearWheelOmega(curr_cmd.ang, curr_cmd.lin, wheel_separation_l_) * 1000,
                  wheel_radius_)
OuterFront == Quot(RightFrontWheelOmega(curr_cmd.ang, curr_cmd.lin, wheel_separation_l_,
                                        wheel_separation_h_) * 1000, wheel_radius_)
InnerFront == Quot(LeftFrontWheelOmega(curr_cmd.ang, curr_cmd.lin, wheel_separation_l_,
                                       wheel_separation_h_) * 1000, wheel_radius_)

\* C15: update() sends the speeds computed with r + L/2 to the right wheels
\* and those computed with r - L/2 to the left wheels when theta > 0, and the
\* other way round when theta <= 0; for a nonzero theta and a nonzero linear
\* command the wheels on the side away from the turn center (the right for
\* theta > 0, the left for theta < 0) get the larger magnitude on each axle.
C15_OuterWheelsFaster ==
    [][WheelsStep =>
         /\ curr_cmd.ang > 0
              => /\ joint_cmd'.right_rear_wheel_joint_ = OuterRear
                 /\ joint_cmd'.right_front_wheel_joint_ = OuterFront
                 /\ joint_cmd'.left_rear_wheel_joint_ = InnerRear
                 /\ joint_cmd'.left_front_wheel_joint_ = InnerFront
         /\ curr_cmd.ang <= 0
              => /\ joint_cmd'.left_rear_wheel_joint_ = OuterRear
                 /\ joint_cmd'.left_front_wheel_joint_ = OuterFront
                 /\ joint_cmd'.right_rear_wheel_joint_ = InnerRear
                 /\ joint_cmd'.right_front_wheel_joint_ = InnerFront
         /\ (curr_cmd.ang > 0 /\ curr_cmd.lin # 0) => RightWheelsFaster(joint_cmd')
         /\ (curr_cmd.ang < 0 /\ curr_cmd.lin # 0) => LeftWheelsFaster(joint_cmd')]_vars

\* C15's case: a cycle has set the wheel speeds of a command that turns to the
\* right (theta < 0), the left wheels the faster.
C15_Witness ==
    /\ update_pc = "idle"
    /\ running
    /\ last0_cmd_.ang < 0
    /\ last0_cmd_.lin # 0
    /\ joint_cmd.front_steer_joint_ < 0
    /\ LeftWheelsFaster(joint_cmd)

\* C16: as long as cmdVelCallback has accepted no command since the latest
\* starting(), every cycle of update() ends with zero wheel-speed setpoints: a
\* command written before the stop is not applied after the restart, even when
\* its age is within cmd_vel_timeout_.
C16_RestartForgetsCommand ==
    [][(CycleEnds /\ ~accepted_since_start) => WheelsAreZero(joint_cmd')]_vars

\* The step of update() that makes a publish attempt.
PublishAttempt == PublicationDue /\ update_pc' = "move"

\* The pose the odometry update of this cycle computes.
UpdatedOdometry ==
    IF open_loop_
    THEN OdometryUpdateOpenLoop(odometry_, last0_cmd_.lin, last0_cmd_.ang, update_time)
    ELSE OdometryUpdate(odometry_, wheel_pos.v, steer_pos.v * steer_pos_multiplier_,
                        update_time, Gain(steer_pos.v, wheel_separation_l_),
                        wheel_separation_h_multiplier_ * wheel_separation_h_,
                        wheel_radius_multiplier_ * wheel_radius_)

\* C17: from starting(t0) on, a cycle of update() makes at most one publish
\* attempt; each attempt, the ones whose trylock fails too, advances
\* last_state_publish_time_ by exactly publish_period_ and leaves it no later
\* than the time of the cycle, so that the attempts made up to a cycle at time
\* t number at most (t - t0) / publish_period_; an attempt leaves the pose of
\* the odometry update, the command history and the setpoints as they are.
C17_PublishCadence ==
    /\ [](/\ last_state_publish_time_ <= now
          /\ publish_log.attempts * publish_period_ <= now - publish_log.start
          /\ update_pc # "idle"
               => /\ last_state_publish_time_ <= update_time
                  /\ publish_log.attempts * publish_period_
                        <= update_time - publish_log.start)
    /\ [][/\ PublishAttempt
               => /\ last_state_publish_time_' = last_state_publish_time_ + publish_period_
                  /\ publish_log'.attempts = publish_log.attempts + 1
                  /\ odometry_' = UpdatedOdometry
                  /\ UNCHANGED <<history_vars, joint_cmd, command_, command_struct_>>
          /\ ~PublishAttempt
               => \/ UNCHANGED <<last_state_publish_time_, publish_log>>
                  \/ /\ ~running /\ running'
                     /\ last_state_publish_time_' = now
                     /\ publish_log' = [start |-> now, attempts |-> 0]]_vars

\* C17's case: the second publish attempt since starting() has found the
\* odometry message of the first still with its publishing thread, and
\* last_state_publish_time_ is two periods after the start.
C17_Witness ==
    /\ update_pc = "move"
    /\ publish_log.attempts = 2
    /\ odom_pub_.turn = "NON_REALTIME"
    /\ odom_pub_.stamp < update_time
    /\ last_state_publish_time_ = publish_log.start + 2 * publish_period_

====
